---- MODULE Spec2Model ----
(***************************************************************************)
(* Hybrid logical clock generator (hlc-gen).                               *)
(*                                                                         *)
(* The model covers the timestamp codec (src/src/timestamp.rs), the epoch  *)
(* converter (src/src/epoch.rs), the settable clock source                 *)
(* (src/src/source.rs), the atomic cell HlcAtomicTimestamp with its        *)
(* compare-and-swap loop (src/src/timestamp.rs) and the generator's        *)
(* next_timestamp / update calls, whose merge functions are taken from     *)
(* section 4.4 of the specification (the generator's file is not part of   *)
(* the sources).                                                           *)
(*                                                                         *)
(* Widths are scaled: the 64-bit word of 42 + 22 bits becomes a word of    *)
(* PT_BITS + LC_BITS bits, and the epoch keeps its place strictly between  *)
(* 0 and PT_MAX, because the model checker's integers are 32 bits wide.    *)
(* All arithmetic is done as the code does it, on words of that width.     *)
(***************************************************************************)
EXTENDS Integers, FiniteSets, Sequences, TLC

\* ------------------------------------------------------------------------
\* Bounds of the model.

\* Width of the physical field (42 in the source), scaled.
PtBitsScaled == 3

\* Width of the logical field (22 in the source), scaled.
LcBitsScaled == 2

\* The custom epoch in Unix milliseconds (1_704_067_200_000 in the source),
\* scaled so that 0 < EPOCH < PT_MAX as in the source.
EpochScaled == 5

\* Number of threads sharing one generator.
NumThreads == 2

\* Total number of calls started on the generator in one behaviour.
MaxCalls == 3

\* Largest max_drift a generator is constructed with.
MaxDriftBound == 1

\* The settable clock is given readings up to EPOCH + MaxClockOffset, and one
\* reading past the physical field.
MaxClockOffset == 1

\* Remote timestamps have physical offsets up to MaxRemoteOffset.
MaxRemoteOffset == 2

\* The same two bounds for the calls that run concurrently.
MaxClockOffsetC == 1

MaxRemoteOffsetC == 1

\* Largest number of milliseconds added to or subtracted from a timestamp.
MaxDelta == 9

\* Number of updates each thread makes, one after the other, on a shared cell.
UpdatesPerThread == 2

\* ------------------------------------------------------------------------
\* Constants of the program.

PT_BITS == PtBitsScaled

LC_BITS == LcBitsScaled

EPOCH == EpochScaled

RECURSIVE Pow2(_)
Pow2(n) == IF n = 0 THEN 1 ELSE 2 * Pow2(n - 1)

\* The width of the machine word (u64 = 42 + 22 bits).
WORD_BITS == PT_BITS + LC_BITS

WordMod == Pow2(WORD_BITS)

PT_MAX == Pow2(PT_BITS) - 1

LC_MAX == Pow2(LC_BITS) - 1

\* ------------------------------------------------------------------------
\* Word arithmetic: x << n, x >> n, x & y, x | y, wrapping_add, wrapping_sub.

Shl(x, n) == (x * Pow2(n)) % WordMod

Shr(x, n) == x \div Pow2(n)

RECURSIVE BitAnd(_, _)
BitAnd(x, y) ==
    IF x = 0 \/ y = 0 THEN 0
    ELSE (IF x % 2 = 1 /\ y % 2 = 1 THEN 1 ELSE 0) + 2 * BitAnd(x \div 2, y \div 2)

RECURSIVE BitOr(_, _)
BitOr(x, y) ==
    IF x = 0 THEN y
    ELSE IF y = 0 THEN x
    ELSE (IF x % 2 = 1 \/ y % 2 = 1 THEN 1 ELSE 0) + 2 * BitOr(x \div 2, y \div 2)

WrappingAdd(x, n) == (x + n) % WordMod

WrappingSub(x, n) == (x - n) % WordMod

Max2(a, b) == IF a >= b THEN a ELSE b

\* ------------------------------------------------------------------------
\* Errors and results.

NoErr == [e |-> "none", a |-> 0, b |-> 0]

Err(e, a, b) == [e |-> e, a |-> a, b |-> b]

\* Result of an operation returning a timestamp word.
OkWord(v) == [ok |-> TRUE, v |-> v, err |-> NoErr]

ErrWord(e) == [ok |-> FALSE, v |-> 0, err |-> e]

\* Result of a merge function: a (physical, logical) pair.
OkPair(p, l) == [ok |-> TRUE, pt |-> p, lc |-> l, err |-> NoErr]

ErrPair(e) == [ok |-> FALSE, pt |-> 0, lc |-> 0, err |-> e]

\* ------------------------------------------------------------------------
\* Epoch converter.

\* from_unix_timestamp rejecting the epoch itself.
from_unix_timestampLe(unix_timestamp) ==
    IF unix_timestamp <= EPOCH
    THEN ErrWord(Err("TimestampBelowMin", unix_timestamp, EPOCH))
    ELSE OkWord(unix_timestamp - EPOCH)

\* CustomEpochTimestamp::from_unix_timestamp: the offset, or TimestampBelowMin.
from_unix_timestamp(unix_timestamp) ==
    IF unix_timestamp < EPOCH
    THEN ErrWord(Err("TimestampBelowMin", unix_timestamp, EPOCH))
    ELSE OkWord(unix_timestamp - EPOCH)

\* CustomEpochTimestamp::to_unix_timestamp
to_unix_timestamp(ms) == ms + EPOCH

\* ------------------------------------------------------------------------
\* Timestamp codec.

\* from_parts shifting the physical offset by the width of the wrong field.
from_partsSwapped(pt, lc) ==
    IF pt > PT_MAX THEN ErrWord(Err("PhysicalTimeExceedsMax", pt, PT_MAX))
    ELSE IF lc > LC_MAX THEN ErrWord(Err("LogicalClockExceedsMax", lc, LC_MAX))
    ELSE LET ts == from_unix_timestamp(pt)
         IN  IF ~ts.ok THEN ErrWord(ts.err)
             ELSE OkWord(BitOr(Shl(ts.v, PT_BITS), lc))

\* HlcTimestamp::from_parts
from_parts(pt, lc) ==
    IF pt > PT_MAX THEN ErrWord(Err("PhysicalTimeExceedsMax", pt, PT_MAX))
    ELSE IF lc > LC_MAX THEN ErrWord(Err("LogicalClockExceedsMax", lc, LC_MAX))
    ELSE LET ts == from_unix_timestamp(pt)
         IN  IF ~ts.ok THEN ErrWord(ts.err)
             ELSE OkWord(BitOr(Shl(ts.v, LC_BITS), lc))

\* timestamp shifting by the width of the wrong field.
timestampSwapped(raw) == to_unix_timestamp(BitAnd(Shr(raw, PT_BITS), PT_MAX))

\* HlcTimestamp::timestamp
timestamp(raw) == to_unix_timestamp(BitAnd(Shr(raw, LC_BITS), PT_MAX))

\* count masking one bit too few.
countLow(raw) == BitAnd(raw, Shr(LC_MAX, 1))

\* HlcTimestamp::count
count(raw) == BitAnd(raw, LC_MAX)

\* HlcTimestamp::parts
parts(raw) == <<timestamp(raw), count(raw)>>

\* HlcTimestamp::as_u64
as_u64(raw) == raw

\* HlcTimestamp::split
split(raw) == <<BitAnd(Shr(raw, LC_BITS), PT_MAX), BitAnd(raw, LC_MAX)>>

\* TryFrom<u64> for HlcTimestamp
try_from(value) ==
    LET pt == BitAnd(Shr(value, LC_BITS), PT_MAX)
        lc == BitAnd(value, LC_MAX)
    IN  from_parts(to_unix_timestamp(pt), lc)

\* add taking the whole word for the physical offset.
addRaw(raw, ts) ==
    LET s == split(raw)
    IN  BitOr(Shl(WrappingAdd(raw, ts), LC_BITS), s[2])

\* Add<u64> for HlcTimestamp
add(raw, ts) ==
    LET s == split(raw)
    IN  BitOr(Shl(WrappingAdd(s[1], ts), LC_BITS), s[2])

\* Sub<u64> for HlcTimestamp
sub(raw, ts) ==
    LET s == split(raw)
    IN  BitOr(Shl(WrappingSub(s[1], ts), LC_BITS), s[2])

\* impl_sub taking the difference of the words.
impl_subRaw(lhs, rhs) == lhs - rhs

\* Sub<HlcTimestamp> for HlcTimestamp (impl_sub): the signed difference of
\* the physical offsets.
impl_sub(lhs, rhs) ==
    LET pt1 == BitAnd(Shr(lhs, LC_BITS), PT_MAX)
        pt2 == BitAnd(Shr(rhs, LC_BITS), PT_MAX)
    IN  pt1 - pt2

\* Ord for HlcTimestamp, derived on the word.
cmp(lhs, rhs) ==
    IF lhs < rhs THEN "Less" ELSE IF lhs = rhs THEN "Equal" ELSE "Greater"

\* ------------------------------------------------------------------------
\* Generator merge functions (specification, section 4.4).

\* NextMerge taking the clock's reading, and counter 0, also when the
\* reading only equals the register's physical component.
NextMergeGe(physical_now, local_p, local_l) ==
    IF physical_now >= local_p THEN OkPair(physical_now, 0)
    ELSE OkPair(local_p, local_l + 1)

\* The closure next_timestamp() hands to the cell.
NextMerge(physical_now, local_p, local_l) ==
    LET new_p == Max2(local_p, physical_now)
        new_l == IF new_p = local_p THEN local_l + 1 ELSE 0
    IN  OkPair(new_p, new_l)

\* The closure update(remote) hands to the cell.
UpdateMerge(physical_now, remote_p, remote_l, local_p, local_l) ==
    LET new_p == Max2(Max2(local_p, remote_p), physical_now)
        new_l == IF new_p = local_p /\ new_p = remote_p THEN Max2(local_l, remote_l) + 1
                 ELSE IF new_p = local_p THEN local_l + 1
                 ELSE IF new_p = remote_p THEN remote_l + 1
                 ELSE 0
    IN  OkPair(new_p, new_l)

\* DriftCheck rejecting a remote exactly at the bound.
DriftCheckGe(md, remote_p, physical_now) ==
    IF md # 0 /\ remote_p - physical_now >= md
    THEN Err("DriftTooLarge", remote_p - physical_now, md)
    ELSE NoErr

\* DriftCheck without the test that the bound is set.
DriftCheckAlways(md, remote_p, physical_now) ==
    IF remote_p - physical_now > md
    THEN Err("DriftTooLarge", remote_p - physical_now, md)
    ELSE NoErr

\* DriftCheck taking the difference the wrong way round.
DriftCheckReversed(md, remote_p, physical_now) ==
    IF md # 0 /\ physical_now - remote_p > md
    THEN Err("DriftTooLarge", physical_now - remote_p, md)
    ELSE NoErr

\* The drift check of update(remote): the error, or NoErr when it passes.
DriftCheck(md, remote_p, physical_now) ==
    IF md # 0 /\ remote_p - physical_now > md
    THEN Err("DriftTooLarge", remote_p - physical_now, md)
    ELSE NoErr

\* ------------------------------------------------------------------------
\* Atomic cell.

\* A call in flight: what it is, the clock reading it took, its remote
\* timestamp (update), the pair of a constant closure (cell-level update).
NoCall == [kind |-> "none", now |-> 0, remote |-> 0, cp |-> 0, cl |-> 0]

\* The closure new_values of a call, applied to the decoded cell value.
MergeFn(c, pt, lc) ==
    CASE c.kind = "next"   -> NextMerge(c.now, pt, lc)
      [] c.kind = "update" -> UpdateMerge(c.now, timestamp(c.remote), count(c.remote), pt, lc)
      [] c.kind = "const"  -> OkPair(c.cp, c.cl)
      [] c.kind = "incr"   -> OkPair(pt, lc + 1)
      [] OTHER             -> ErrPair(Err("OutOfRangeTimestamp", 0, 0))

\* NewCombined without the check of the counter: the counter is cut to its
\* field.
NewCombinedTrunc(c, current) ==
    LET m == MergeFn(c, to_unix_timestamp(BitAnd(Shr(current, LC_BITS), PT_MAX)),
                        BitAnd(current, LC_MAX))
    IN  IF ~m.ok THEN ErrWord(m.err)
        ELSE IF m.pt > PT_MAX THEN ErrWord(Err("PhysicalTimeExceedsMax", m.pt, PT_MAX))
        ELSE LET ts == from_unix_timestamp(m.pt)
             IN  IF ~ts.ok THEN ErrWord(ts.err)
                 ELSE OkWord(BitOr(Shl(ts.v, LC_BITS), BitAnd(m.lc, LC_MAX)))

\* NewCombined handing the closure the offset from the custom epoch instead
\* of the Unix time.
NewCombinedOffset(c, current) ==
    LET m == MergeFn(c, BitAnd(Shr(current, LC_BITS), PT_MAX), BitAnd(current, LC_MAX))
    IN  IF ~m.ok THEN ErrWord(m.err)
        ELSE IF m.pt > PT_MAX THEN ErrWord(Err("PhysicalTimeExceedsMax", m.pt, PT_MAX))
        ELSE IF m.lc > LC_MAX THEN ErrWord(Err("LogicalClockExceedsMax", m.lc, LC_MAX))
        ELSE LET ts == from_unix_timestamp(m.pt)
             IN  IF ~ts.ok THEN ErrWord(ts.err)
                 ELSE OkWord(BitOr(Shl(ts.v, LC_BITS), m.lc))

\* NewCombined leaving the counter out of the word.
NewCombinedNoCount(c, current) ==
    LET m == MergeFn(c, to_unix_timestamp(BitAnd(Shr(current, LC_BITS), PT_MAX)),
                        BitAnd(current, LC_MAX))
    IN  IF ~m.ok THEN ErrWord(m.err)
        ELSE IF m.pt > PT_MAX THEN ErrWord(Err("PhysicalTimeExceedsMax", m.pt, PT_MAX))
        ELSE IF m.lc > LC_MAX THEN ErrWord(Err("LogicalClockExceedsMax", m.lc, LC_MAX))
        ELSE LET ts == from_unix_timestamp(m.pt)
             IN  IF ~ts.ok THEN ErrWord(ts.err)
                 ELSE OkWord(Shl(ts.v, LC_BITS))

\* One pass of the loop body of HlcAtomicTimestamp::update up to the
\* compare-and-swap: the word to install, or the error the call returns.
NewCombined(c, current) ==
    LET m == MergeFn(c, to_unix_timestamp(BitAnd(Shr(current, LC_BITS), PT_MAX)),
                        BitAnd(current, LC_MAX))
    IN  IF ~m.ok THEN ErrWord(m.err)
        ELSE IF m.pt > PT_MAX THEN ErrWord(Err("PhysicalTimeExceedsMax", m.pt, PT_MAX))
        ELSE IF m.lc > LC_MAX THEN ErrWord(Err("LogicalClockExceedsMax", m.lc, LC_MAX))
        ELSE LET ts == from_unix_timestamp(m.pt)
             IN  IF ~ts.ok THEN ErrWord(ts.err)
                 ELSE OkWord(BitOr(Shl(ts.v, LC_BITS), m.lc))

\* ------------------------------------------------------------------------
\* State.

VARIABLES
    cell,          \* the AtomicU64 of the generator's HlcAtomicTimestamp
    clock,         \* ManualTimestamp.timestamp
    max_drift,     \* the generator's drift bound
    max_sampled,   \* the largest clock reading a call has taken (0: none yet)
    pc,            \* per thread: "idle", "load" (top of the loop), "cas"
    call,          \* per thread: the call in flight
    current,       \* per thread: the local `current`
    new_combined,  \* per thread: the local `new_combined`
    seen,          \* per thread: the stores made to the cell when it was loaded
    retried,       \* per thread: a compare-and-swap of this call has failed
    writes,        \* per thread: stores this call has made to the cell
    ncalls,        \* calls started
    started,       \* per thread: the updates of its sequence it has started
    ndone,         \* calls returned
    returned,      \* the timestamps returned by successful calls
    nreturned,     \* the number of successful calls
    lastWrite,     \* the call that made the latest store to the cell
    last,          \* the call that returned last
    cts,           \* codec: the timestamp under construction
    cin,           \* codec: the inputs
    cout,          \* codec: the result of the last conversion
    ta,            \* arithmetic: the timestamp on the left
    tb,            \* arithmetic: the timestamp on the right
    ares           \* arithmetic: the last operation and its result

codecVars == <<cts, cin, cout>>

arithVars == <<ta, tb, ares>>

genVars == <<cell, clock, max_drift, max_sampled, pc, call, current, new_combined, seen, retried,
             writes, ncalls, started, ndone, returned, nreturned, lastWrite, last>>

vars == <<cell, clock, max_drift, max_sampled, pc, call, current, new_combined, seen, retried,
          writes, ncalls, started, ndone, returned, nreturned, lastWrite, last,
          cts, cin, cout, ta, tb, ares>>

Threads == 1..NumThreads

\* Readings the settable clock is given: from one before the epoch on, and
\* the first reading past the physical field.
ClockValues == ((EPOCH - 1)..(EPOCH + MaxClockOffset)) \cup {PT_MAX + 1}

\* Remote timestamps: the words of the physical offsets 0..MaxRemoteOffset
\* with every logical counter.
Remotes == {w \in 0..(WordMod - 1) : Shr(w, LC_BITS) <= MaxRemoteOffset}

\* The readings and remotes of the calls that run concurrently.
ClockValuesC == EPOCH..(EPOCH + MaxClockOffsetC)

RemotesC == {w \in 0..(WordMod - 1) : Shr(w, LC_BITS) <= MaxRemoteOffsetC}

MaxDriftValues == 0..MaxDriftBound

\* No store has been made to the cell yet.
NoWrite == [kind |-> "none", now |-> 0]

\* The call that returned last: its closure, the value it loaded, the cell
\* before its last step, its result, and the call whose store was the
\* latest before its last step.
NoLast == [call |-> NoCall, snap |-> 0, pre |-> 0, ok |-> FALSE, val |-> 0,
           err |-> NoErr, retried |-> FALSE, writes |-> 0, prev |-> NoWrite]

\* No timestamp built yet, no conversion made yet.
NoCodec == [op |-> "none", ok |-> FALSE, v |-> 0, pt |-> 0, lc |-> 0, err |-> NoErr]

CodecIdle == /\ cts = NoCodec
             /\ cin = [pt |-> 0, lc |-> 0]
             /\ cout = NoCodec

\* No operation on timestamps made yet.
NoArith == [op |-> "none", n |-> 0, ok |-> FALSE, v |-> 0, d |-> 0, ord |-> "none",
            err |-> NoErr]

ArithIdle == /\ ta = 0
             /\ tb = 0
             /\ ares = NoArith

\* HlcGenerator::manual(max_drift): the register is the default timestamp,
\* the clock is ManualTimestamp::default().
InitGen ==
    /\ cell = 0
    /\ clock = EPOCH
    /\ max_sampled = 0
    /\ pc = [t \in Threads |-> "idle"]
    /\ call = [t \in Threads |-> NoCall]
    /\ current = [t \in Threads |-> 0]
    /\ new_combined = [t \in Threads |-> 0]
    /\ seen = [t \in Threads |-> 0]
    /\ retried = [t \in Threads |-> FALSE]
    /\ writes = [t \in Threads |-> 0]
    /\ ncalls = 0
    /\ started = [t \in Threads |-> 0]
    /\ ndone = 0
    /\ returned = {}
    /\ nreturned = 0
    /\ lastWrite = NoWrite
    /\ last = NoLast

Init ==
    /\ InitGen
    /\ max_drift \in MaxDriftValues
    /\ CodecIdle
    /\ ArithIdle

\* ------------------------------------------------------------------------
\* Actions.

\* ManualTimestamp::set_current_timestamp
SetClock(v) ==
    /\ clock' = v
    /\ v # clock
    /\ UNCHANGED <<cell, max_drift, max_sampled, pc, call, current, new_combined, seen, retried, writes,
                   ncalls, ndone, returned, nreturned, lastWrite, last>>
    /\ UNCHANGED codecVars
    /\ UNCHANGED arithVars
    /\ UNCHANGED started

\* A call enters the loop of HlcAtomicTimestamp::update with closure c.
Enter(t, c) ==
    /\ pc[t] = "idle"
    /\ ncalls < MaxCalls
    /\ pc' = [pc EXCEPT ![t] = "load"]
    /\ call' = [call EXCEPT ![t] = c]
    /\ retried' = [retried EXCEPT ![t] = FALSE]
    /\ writes' = [writes EXCEPT ![t] = 0]
    /\ ncalls' = ncalls + 1

\* The record of a call of thread t with closure c that loaded snap and
\* returns r, having made nw stores.
Returned(t, c, snap, r, nw) ==
    [call |-> c, snap |-> snap, pre |-> cell, ok |-> r.ok, val |-> r.v, err |-> r.err,
     retried |-> retried[t], writes |-> nw, prev |-> lastWrite]

\* next_timestamp(): read the clock, hand NextMerge to the cell.
BeginNext(t) ==
    /\ Enter(t, [NoCall EXCEPT !.kind = "next", !.now = clock])
    /\ max_sampled' = Max2(max_sampled, clock)
    /\ UNCHANGED <<cell, clock, max_drift, current, new_combined, seen, ndone, returned,
                   nreturned, lastWrite, last>>
    /\ UNCHANGED codecVars
    /\ UNCHANGED arithVars
    /\ UNCHANGED started

\* update(remote): read the clock, decode the remote, check the drift; a
\* remote that passes is handed to the cell with UpdateMerge.
BeginUpdate(t, remote) ==
    LET c == [NoCall EXCEPT !.kind = "update", !.now = clock, !.remote = remote]
        d == DriftCheck(max_drift, parts(remote)[1], clock)
    IN  /\ IF d.e # "none"
           THEN /\ pc[t] = "idle"
                /\ ncalls < MaxCalls
                /\ ncalls' = ncalls + 1
                /\ ndone' = ndone + 1
                /\ last' = Returned(t, c, cell, ErrWord(d), 0)
                /\ UNCHANGED <<pc, call, retried, writes>>
           ELSE /\ Enter(t, c)
                /\ UNCHANGED <<ndone, last>>
        /\ max_sampled' = Max2(max_sampled, clock)
        /\ UNCHANGED <<cell, clock, max_drift, current, new_combined, seen, returned,
                       nreturned, lastWrite>>
        /\ UNCHANGED codecVars
        /\ UNCHANGED arithVars
        /\ UNCHANGED started

\* HlcAtomicTimestamp::update(new_values) called on the cell directly.
BeginCell(t, c) ==
    /\ Enter(t, c)
    /\ UNCHANGED <<cell, clock, max_drift, max_sampled, current, new_combined, seen, ndone, returned,
                   nreturned, lastWrite, last>>
    /\ UNCHANGED codecVars
    /\ UNCHANGED arithVars
    /\ UNCHANGED started

\* Load storing the word, cut to its fields, before it validates the pair.
LoadWritesOnError(t) ==
    /\ pc[t] = "load"
    /\ LET r == NewCombined(call[t], cell)
           m == MergeFn(call[t], timestamp(cell), count(cell))
       IN  IF r.ok
           THEN /\ current' = [current EXCEPT ![t] = cell]
                /\ new_combined' = [new_combined EXCEPT ![t] = r.v]
                /\ seen' = [seen EXCEPT ![t] = nreturned]
                /\ pc' = [pc EXCEPT ![t] = "cas"]
                /\ UNCHANGED <<cell, call, ndone, last, retried>>
           ELSE /\ cell' = IF m.ok
                           THEN BitOr(Shl((m.pt - EPOCH) % (PT_MAX + 1), LC_BITS),
                                      BitAnd(m.lc, LC_MAX))
                           ELSE cell
                /\ pc' = [pc EXCEPT ![t] = "idle"]
                /\ call' = [call EXCEPT ![t] = NoCall]
                /\ current' = [current EXCEPT ![t] = 0]
                /\ new_combined' = [new_combined EXCEPT ![t] = 0]
                /\ seen' = [seen EXCEPT ![t] = 0]
                /\ retried' = [retried EXCEPT ![t] = FALSE]
                /\ ndone' = ndone + 1
                /\ last' = Returned(t, call[t], cell, r, writes[t])
    /\ UNCHANGED <<clock, max_drift, max_sampled, writes, ncalls, returned, nreturned, lastWrite>>
    /\ UNCHANGED codecVars
    /\ UNCHANGED arithVars
    /\ UNCHANGED started

\* Load with a closure that reads the clock each time it is applied.
LoadRereads(t) ==
    /\ pc[t] = "load"
    /\ LET r == NewCombined([call[t] EXCEPT !.now = clock], cell)
       IN  IF r.ok
           THEN /\ current' = [current EXCEPT ![t] = cell]
                /\ new_combined' = [new_combined EXCEPT ![t] = r.v]
                /\ seen' = [seen EXCEPT ![t] = nreturned]
                /\ pc' = [pc EXCEPT ![t] = "cas"]
                /\ UNCHANGED <<call, ndone, last, retried>>
           ELSE /\ pc' = [pc EXCEPT ![t] = "idle"]
                /\ call' = [call EXCEPT ![t] = NoCall]
                /\ current' = [current EXCEPT ![t] = 0]
                /\ new_combined' = [new_combined EXCEPT ![t] = 0]
                /\ seen' = [seen EXCEPT ![t] = 0]
                /\ retried' = [retried EXCEPT ![t] = FALSE]
                /\ ndone' = ndone + 1
                /\ last' = Returned(t, call[t], cell, r, writes[t])
    /\ UNCHANGED <<cell, clock, max_drift, max_sampled, writes, ncalls, returned, nreturned,
                   lastWrite>>
    /\ UNCHANGED codecVars
    /\ UNCHANGED arithVars
    /\ UNCHANGED started

\* The loop body up to the compare-and-swap: load the cell, apply the
\* closure, validate, encode; an error returns from the call.
Load(t) ==
    /\ pc[t] = "load"
    /\ LET r == NewCombined(call[t], cell)
       IN  IF r.ok
           THEN /\ current' = [current EXCEPT ![t] = cell]
                /\ new_combined' = [new_combined EXCEPT ![t] = r.v]
                /\ seen' = [seen EXCEPT ![t] = nreturned]
                /\ pc' = [pc EXCEPT ![t] = "cas"]
                /\ UNCHANGED <<call, ndone, last, retried>>
           ELSE /\ pc' = [pc EXCEPT ![t] = "idle"]
                /\ call' = [call EXCEPT ![t] = NoCall]
                /\ current' = [current EXCEPT ![t] = 0]
                /\ new_combined' = [new_combined EXCEPT ![t] = 0]
                /\ seen' = [seen EXCEPT ![t] = 0]
                /\ retried' = [retried EXCEPT ![t] = FALSE]
                /\ ndone' = ndone + 1
                /\ last' = Returned(t, call[t], cell, r, writes[t])
    /\ UNCHANGED <<cell, clock, max_drift, max_sampled, writes, ncalls, returned, nreturned,
                   lastWrite>>
    /\ UNCHANGED codecVars
    /\ UNCHANGED arithVars
    /\ UNCHANGED started

\* Cas storing new_combined without comparing the cell with current.
CasBlind(t) ==
    /\ pc[t] = "cas"
    /\ cell' = new_combined[t]
    /\ pc' = [pc EXCEPT ![t] = "idle"]
    /\ call' = [call EXCEPT ![t] = NoCall]
    /\ current' = [current EXCEPT ![t] = 0]
    /\ new_combined' = [new_combined EXCEPT ![t] = 0]
    /\ seen' = [seen EXCEPT ![t] = 0]
    /\ retried' = [retried EXCEPT ![t] = FALSE]
    /\ writes' = [writes EXCEPT ![t] = 0]
    /\ ndone' = ndone + 1
    /\ returned' = returned \cup {new_combined[t]}
    /\ nreturned' = nreturned + 1
    /\ lastWrite' = [kind |-> call[t].kind, now |-> call[t].now]
    /\ last' = Returned(t, call[t], current[t], OkWord(new_combined[t]), writes[t] + 1)
    /\ UNCHANGED <<clock, max_drift, max_sampled, ncalls>>
    /\ UNCHANGED codecVars
    /\ UNCHANGED arithVars
    /\ UNCHANGED started

\* Cas with compare_exchange_weak: the exchange may fail although the cell
\* holds current.
CasWeak(t) ==
    /\ pc[t] = "cas"
    /\ \/ /\ cell = current[t]
          /\ cell' = new_combined[t]
          /\ pc' = [pc EXCEPT ![t] = "idle"]
          /\ call' = [call EXCEPT ![t] = NoCall]
          /\ current' = [current EXCEPT ![t] = 0]
          /\ new_combined' = [new_combined EXCEPT ![t] = 0]
          /\ seen' = [seen EXCEPT ![t] = 0]
          /\ retried' = [retried EXCEPT ![t] = FALSE]
          /\ writes' = [writes EXCEPT ![t] = 0]
          /\ ndone' = ndone + 1
          /\ returned' = returned \cup {new_combined[t]}
          /\ nreturned' = nreturned + 1
          /\ lastWrite' = [kind |-> call[t].kind, now |-> call[t].now]
          /\ last' = Returned(t, call[t], current[t], OkWord(new_combined[t]),
                              writes[t] + 1)
       \/ /\ pc' = [pc EXCEPT ![t] = "load"]
          /\ retried' = [retried EXCEPT ![t] = TRUE]
          /\ UNCHANGED <<cell, call, current, new_combined, seen, writes, ndone,
                         returned, nreturned, lastWrite, last>>
    /\ UNCHANGED <<clock, max_drift, max_sampled, ncalls>>
    /\ UNCHANGED codecVars
    /\ UNCHANGED arithVars
    /\ UNCHANGED started

\* compare_exchange(current, new_combined): on success the call returns the
\* word it installed, on failure it goes round the loop.
Cas(t) ==
    /\ pc[t] = "cas"
    /\ IF cell = current[t]
       THEN /\ cell' = new_combined[t]
            /\ pc' = [pc EXCEPT ![t] = "idle"]
            /\ call' = [call EXCEPT ![t] = NoCall]
            /\ current' = [current EXCEPT ![t] = 0]
            /\ new_combined' = [new_combined EXCEPT ![t] = 0]
            /\ seen' = [seen EXCEPT ![t] = 0]
            /\ retried' = [retried EXCEPT ![t] = FALSE]
            /\ writes' = [writes EXCEPT ![t] = 0]
            /\ ndone' = ndone + 1
            /\ returned' = returned \cup {new_combined[t]}
            /\ nreturned' = nreturned + 1
            /\ lastWrite' = [kind |-> call[t].kind, now |-> call[t].now]
            /\ last' = Returned(t, call[t], current[t], OkWord(new_combined[t]),
                                writes[t] + 1)
       ELSE /\ pc' = [pc EXCEPT ![t] = "load"]
            /\ retried' = [retried EXCEPT ![t] = TRUE]
            /\ UNCHANGED <<cell, call, current, new_combined, seen, writes, ndone, returned,
                           nreturned, lastWrite, last>>
    /\ UNCHANGED <<clock, max_drift, max_sampled, ncalls>>
    /\ UNCHANGED codecVars
    /\ UNCHANGED arithVars
    /\ UNCHANGED started

\* ------------------------------------------------------------------------
\* One generator, one thread: calls follow one another.

Next ==
    \/ \E v \in ClockValues : SetClock(v)
    \/ BeginNext(1)
    \/ \E remote \in Remotes : BeginUpdate(1, remote)
    \/ Load(1)
    \/ Cas(1)

Spec == Init /\ [][Next]_vars

\* ------------------------------------------------------------------------
\* One generator, several threads: calls overlap in every interleaving of
\* their steps.

NextC ==
    \/ \E v \in ClockValuesC : SetClock(v)
    \/ \E t \in Threads : BeginNext(t)
    \/ \E t \in Threads, remote \in RemotesC : BeginUpdate(t, remote)
    \/ \E t \in Threads : Load(t)
    \/ \E t \in Threads : Cas(t)

SpecC == Init /\ [][NextC]_vars

\* ------------------------------------------------------------------------
\* One cell, several threads calling update with closures of their own, as
\* the tests concurrent_updates_to_atomic_timestamp and concurrent_updates do.

\* A closure returning the constant pair (p, l).
Const(p, l) == [NoCall EXCEPT !.kind = "const", !.cp = p, !.cl = l]

\* Closures: constants inside and outside the valid ranges, the closure
\* that increments the counter it is given, a closure that returns an error.
CellClosures ==
    {Const(EPOCH, 0), Const(EPOCH + 1, LC_MAX), Const(PT_MAX + 1, 0),
     Const(EPOCH + PT_MAX + 1, 0), Const(EPOCH, LC_MAX + 1), Const(EPOCH - 1, 0),
     [NoCall EXCEPT !.kind = "incr"], [NoCall EXCEPT !.kind = "fail"]}

InitCell ==
    /\ InitGen
    /\ max_drift = 0
    /\ CodecIdle
    /\ ArithIdle

NextCell ==
    \/ \E t \in Threads, c \in CellClosures : BeginCell(t, c)
    \/ \E t \in Threads : Load(t)
    \/ \E t \in Threads : Cas(t)

SpecCell == InitCell /\ [][NextCell]_vars

\* The same under fair scheduling of the threads: a thread inside update
\* takes its next step; no thread has to start a call.
SpecCellFair ==
    /\ InitCell
    /\ [][NextCell]_vars
    /\ \A t \in Threads : WF_vars(Load(t)) /\ WF_vars(Cas(t))

\* ------------------------------------------------------------------------
\* One cell, several threads, each making a fixed sequence of updates with
\* constant closures of its own, as the threads of the two tests do
\* (EPOCH + t * 100 + i there; here the thread gives the physical time and
\* the position in the sequence the counter).

\* The closure of the i-th update of thread t, i counted from 0.
SeqClosure(t, i) == Const(EPOCH + t - 1, i)

\* Thread t starts the next update of its sequence.
BeginSeq(t) ==
    /\ pc[t] = "idle"
    /\ started[t] < UpdatesPerThread
    /\ pc' = [pc EXCEPT ![t] = "load"]
    /\ call' = [call EXCEPT ![t] = SeqClosure(t, started[t])]
    /\ retried' = [retried EXCEPT ![t] = FALSE]
    /\ writes' = [writes EXCEPT ![t] = 0]
    /\ ncalls' = ncalls + 1
    /\ started' = [started EXCEPT ![t] = started[t] + 1]
    /\ UNCHANGED <<cell, clock, max_drift, max_sampled, current, new_combined, seen,
                   ndone, returned, nreturned, lastWrite, last>>
    /\ UNCHANGED codecVars
    /\ UNCHANGED arithVars

\* All threads have made all their updates.
AllFinished ==
    \A t \in Threads : started[t] = UpdatesPerThread /\ pc[t] = "idle"

NextSeq ==
    \/ \E t \in Threads : BeginSeq(t)
    \/ \E t \in Threads : Load(t)
    \/ \E t \in Threads : Cas(t)

SpecSeq == InitCell /\ [][NextSeq]_vars

\* ------------------------------------------------------------------------
\* The same threads with the end of the loop body taken in two steps, the
\* compare_exchange and the return statement after it, so that other
\* threads can store between them.

\* compare_exchange(current, new_combined) alone: on success the call goes
\* on to its return statement, on failure it goes round the loop.
CasInstall(t) ==
    /\ pc[t] = "cas"
    /\ IF cell = current[t]
       THEN /\ cell' = new_combined[t]
            /\ pc' = [pc EXCEPT ![t] = "ret"]
            /\ writes' = [writes EXCEPT ![t] = writes[t] + 1]
            /\ lastWrite' = [kind |-> call[t].kind, now |-> call[t].now]
            /\ UNCHANGED retried
       ELSE /\ pc' = [pc EXCEPT ![t] = "load"]
            /\ retried' = [retried EXCEPT ![t] = TRUE]
            /\ UNCHANGED <<cell, writes, lastWrite>>
    /\ UNCHANGED <<clock, max_drift, max_sampled, call, current, new_combined, seen,
                   ncalls, ndone, returned, nreturned, last>>
    /\ UNCHANGED codecVars
    /\ UNCHANGED arithVars
    /\ UNCHANGED started

\* Return handing out a snapshot of the cell taken at the return.
ReturnSnapshot(t) ==
    /\ pc[t] = "ret"
    /\ pc' = [pc EXCEPT ![t] = "idle"]
    /\ call' = [call EXCEPT ![t] = NoCall]
    /\ current' = [current EXCEPT ![t] = 0]
    /\ new_combined' = [new_combined EXCEPT ![t] = 0]
    /\ seen' = [seen EXCEPT ![t] = 0]
    /\ retried' = [retried EXCEPT ![t] = FALSE]
    /\ writes' = [writes EXCEPT ![t] = 0]
    /\ ndone' = ndone + 1
    /\ returned' = returned \cup {cell}
    /\ nreturned' = nreturned + 1
    /\ last' = Returned(t, call[t], current[t], OkWord(cell), writes[t])
    /\ UNCHANGED <<cell, clock, max_drift, max_sampled, ncalls, lastWrite>>
    /\ UNCHANGED codecVars
    /\ UNCHANGED arithVars
    /\ UNCHANGED started

\* return Ok(HlcAtomicTimestamp(AtomicU64::new(new_combined)))
Return(t) ==
    /\ pc[t] = "ret"
    /\ pc' = [pc EXCEPT ![t] = "idle"]
    /\ call' = [call EXCEPT ![t] = NoCall]
    /\ current' = [current EXCEPT ![t] = 0]
    /\ new_combined' = [new_combined EXCEPT ![t] = 0]
    /\ seen' = [seen EXCEPT ![t] = 0]
    /\ retried' = [retried EXCEPT ![t] = FALSE]
    /\ writes' = [writes EXCEPT ![t] = 0]
    /\ ndone' = ndone + 1
    /\ returned' = returned \cup {new_combined[t]}
    /\ nreturned' = nreturned + 1
    /\ last' = Returned(t, call[t], current[t], OkWord(new_combined[t]), writes[t])
    /\ UNCHANGED <<cell, clock, max_drift, max_sampled, ncalls, lastWrite>>
    /\ UNCHANGED codecVars
    /\ UNCHANGED arithVars
    /\ UNCHANGED started

NextRet ==
    \/ \E t \in Threads : BeginSeq(t)
    \/ \E t \in Threads : Load(t)
    \/ \E t \in Threads : CasInstall(t)
    \/ \E t \in Threads : Return(t)

SpecRet == InitCell /\ [][NextRet]_vars

\* ------------------------------------------------------------------------
\* The codec on its own: a timestamp is built from a pair drawn from the
\* inputs, moved by millisecond arithmetic, decoded and re-read from its word.

\* Physical inputs of from_parts, from below the epoch to the first Unix time
\* whose offset from the epoch is above PT_MAX.
PtInputs == (EPOCH - 2)..(EPOCH + PT_MAX + 1)

\* Logical inputs of from_parts, up to above LC_MAX.
LcInputs == 0..(LC_MAX + 2)

\* Milliseconds added or subtracted: the small numbers, and the largest u64.
Deltas == (0..MaxDelta) \cup {WordMod - 1}

InitCodec ==
    /\ InitGen
    /\ max_drift = 0
    /\ cin \in [pt : PtInputs, lc : LcInputs]
    /\ cts = NoCodec
    /\ cout = NoCodec
    /\ ArithIdle

\* t = HlcTimestamp::from_parts(pt, lc)
FromParts ==
    /\ cts.op = "none"
    /\ LET r == from_parts(cin.pt, cin.lc)
       IN  cts' = [NoCodec EXCEPT !.op = "from_parts", !.ok = r.ok, !.v = r.v,
                                  !.err = r.err]
    /\ UNCHANGED <<cin, cout>>
    /\ UNCHANGED genVars
    /\ UNCHANGED arithVars

\* t += n
AddMillis(n) ==
    /\ cts.ok
    /\ cts' = [cts EXCEPT !.op = "add", !.v = add(cts.v, n)]
    /\ cout' = NoCodec
    /\ UNCHANGED cin
    /\ UNCHANGED genVars
    /\ UNCHANGED arithVars

\* t -= n
SubMillis(n) ==
    /\ cts.ok
    /\ cts' = [cts EXCEPT !.op = "sub", !.v = sub(cts.v, n)]
    /\ cout' = NoCodec
    /\ UNCHANGED cin
    /\ UNCHANGED genVars
    /\ UNCHANGED arithVars

\* t.parts()
Parts ==
    /\ cts.ok
    /\ cout' = [NoCodec EXCEPT !.op = "parts", !.ok = TRUE, !.pt = parts(cts.v)[1],
                               !.lc = parts(cts.v)[2]]
    /\ UNCHANGED <<cin, cts>>
    /\ UNCHANGED genVars
    /\ UNCHANGED arithVars

\* HlcTimestamp::try_from(t.as_u64())
TryFrom ==
    /\ cts.ok
    /\ LET r == try_from(as_u64(cts.v))
       IN  cout' = [NoCodec EXCEPT !.op = "try_from", !.ok = r.ok, !.v = r.v,
                                   !.err = r.err]
    /\ UNCHANGED <<cin, cts>>
    /\ UNCHANGED genVars
    /\ UNCHANGED arithVars

NextCodec ==
    \/ FromParts
    \/ \E n \in Deltas : AddMillis(n)
    \/ \E n \in Deltas : SubMillis(n)
    \/ Parts
    \/ TryFrom

SpecCodec == InitCodec /\ [][NextCodec]_vars

\* ------------------------------------------------------------------------
\* Operations on timestamp values: comparison, difference, millisecond
\* arithmetic, and the epoch converter on Unix times.

\* Every word is a timestamp value: millisecond arithmetic reaches every
\* physical offset, with every counter from_parts accepts.
Words == 0..(WordMod - 1)

\* Unix times handed to the epoch converter, from before the Unix epoch to
\* past the last offset of the physical field.
UnixInputs == (0 - 1)..(EPOCH + PT_MAX + 1)

InitArith ==
    /\ InitGen
    /\ max_drift = 0
    /\ CodecIdle
    /\ ta \in Words
    /\ tb \in Words
    /\ ares = NoArith

\* ta.cmp(&tb)
Compare ==
    /\ ares.op = "none"
    /\ ares' = [NoArith EXCEPT !.op = "cmp", !.ord = cmp(ta, tb)]
    /\ UNCHANGED <<ta, tb>>
    /\ UNCHANGED genVars
    /\ UNCHANGED codecVars

\* ta - tb
Difference ==
    /\ ares.op = "none"
    /\ ares' = [NoArith EXCEPT !.op = "diff", !.d = impl_sub(ta, tb)]
    /\ UNCHANGED <<ta, tb>>
    /\ UNCHANGED genVars
    /\ UNCHANGED codecVars

\* t2 = ta + n
Plus(n) ==
    /\ ares.op = "none"
    /\ ares' = [NoArith EXCEPT !.op = "add", !.n = n, !.ok = TRUE, !.v = add(ta, n)]
    /\ UNCHANGED <<ta, tb>>
    /\ UNCHANGED genVars
    /\ UNCHANGED codecVars

\* t3 = t2 - n, for the t2 and the n of the sum just made.
MinusBack ==
    /\ ares.op = "add"
    /\ ares' = [ares EXCEPT !.op = "add_sub", !.v = sub(ares.v, ares.n)]
    /\ UNCHANGED <<ta, tb>>
    /\ UNCHANGED genVars
    /\ UNCHANGED codecVars

\* ta - n
Minus(n) ==
    /\ ares.op = "none"
    /\ ares' = [NoArith EXCEPT !.op = "sub", !.n = n, !.ok = TRUE, !.v = sub(ta, n)]
    /\ UNCHANGED <<ta, tb>>
    /\ UNCHANGED genVars
    /\ UNCHANGED codecVars

\* ta += n; the result records the value ta had.
PlusAssign(n) ==
    /\ ares.op = "none"
    /\ ta' = add(ta, n)
    /\ ares' = [NoArith EXCEPT !.op = "add_assign", !.n = n, !.ok = TRUE, !.v = ta]
    /\ UNCHANGED tb
    /\ UNCHANGED genVars
    /\ UNCHANGED codecVars

\* ta -= n, for the n just added with +=.
MinusAssignBack ==
    /\ ares.op = "add_assign"
    /\ ta' = sub(ta, ares.n)
    /\ ares' = [ares EXCEPT !.op = "add_sub_assign"]
    /\ UNCHANGED tb
    /\ UNCHANGED genVars
    /\ UNCHANGED codecVars

\* ta -= n; the result records the value ta had.
MinusAssign(n) ==
    /\ ares.op = "none"
    /\ ta' = sub(ta, n)
    /\ ares' = [NoArith EXCEPT !.op = "sub_assign", !.n = n, !.ok = TRUE, !.v = ta]
    /\ UNCHANGED tb
    /\ UNCHANGED genVars
    /\ UNCHANGED codecVars

\* CustomEpochTimestamp::from_unix_timestamp(u)
ToOffset(u) ==
    /\ ares.op = "none"
    /\ LET r == from_unix_timestamp(u)
       IN  ares' = [NoArith EXCEPT !.op = "to_offset", !.n = u, !.ok = r.ok, !.v = r.v,
                                   !.err = r.err]
    /\ UNCHANGED <<ta, tb>>
    /\ UNCHANGED genVars
    /\ UNCHANGED codecVars

\* CustomEpochTimestamp::to_unix_timestamp(custom_ts.millis()) of the offset
\* just obtained.
ToUnix ==
    /\ ares.op = "to_offset"
    /\ ares.ok
    /\ ares' = [ares EXCEPT !.op = "to_unix", !.v = to_unix_timestamp(ares.v)]
    /\ UNCHANGED <<ta, tb>>
    /\ UNCHANGED genVars
    /\ UNCHANGED codecVars

\* One operation, or one pair of operations undoing one another, is applied
\* to the timestamps the behaviour starts with.
NextArith ==
    \/ Compare
    \/ Difference
    \/ \E n \in Deltas : Plus(n)
    \/ MinusBack
    \/ \E n \in Deltas : Minus(n)
    \/ \E n \in Deltas : PlusAssign(n)
    \/ MinusAssignBack
    \/ \E n \in Deltas : MinusAssign(n)
    \/ \E u \in UnixInputs : ToOffset(u)
    \/ ToUnix

SpecArith == InitArith /\ [][NextArith]_vars

\* ------------------------------------------------------------------------
\* Properties.

\* The physical offset and the Unix physical time of a word.
Offset(w) == w \div (LC_MAX + 1)

Physical(w) == Offset(w) + EPOCH

Logical(w) == w % (LC_MAX + 1)

Max3(a, b, c) == Max2(Max2(a, b), c)

\* C1: the timestamps returned by the successful calls of all threads are
\* pairwise distinct: there are as many different returned values as there
\* are successful calls.
C1_Distinct == Cardinality(returned) = nreturned

\* Two calls have succeeded, the later one after a failed compare-and-swap.
C1_Witness == nreturned >= 2 /\ last.ok /\ last.retried

\* C2: the register never decreases, and the step in which a call succeeds
\* replaces the register with a strictly greater word, also when the clock
\* has gone backwards.
C2_Monotonic ==
    [][/\ cell' >= cell
       /\ (nreturned' # nreturned) => (cell' > cell)]_vars

\* A call has succeeded whose clock reading is lower than the reading of
\* the call that stored before it.
C2_Witness ==
    /\ last.ok
    /\ last.prev.kind # "none"
    /\ last.call.now < last.prev.now
    /\ cell > last.pre

\* C3: a successful update(remote) returns a timestamp strictly greater
\* than the remote and strictly greater than the register value its merge
\* was computed from.
C3_UpdateSucceedsBoth ==
    (last.call.kind = "update" /\ last.ok) =>
        (last.val > last.call.remote /\ last.val > last.snap)

\* An update has succeeded after a failed compare-and-swap, with a remote
\* ahead of the value it first could have loaded.
C3_Witness ==
    /\ last.call.kind = "update"
    /\ last.ok
    /\ last.retried
    /\ last.call.remote > 0

\* C4: the step in which a call returns an error leaves the register, the
\* clock and the drift bound as they were, and the call has made no store.
C4_RejectionNoOp ==
    [][(ndone' # ndone /\ ~last'.ok) =>
         /\ cell' = cell
         /\ clock' = clock
         /\ max_drift' = max_drift
         /\ last'.writes = 0]_vars

\* A call has returned a field overflow error from a register that an
\* earlier call has moved, and the register is where that call left it.
C4_Witness ==
    /\ last.call.kind # "none"
    /\ ~last.ok
    /\ last.err.e \in {"PhysicalTimeExceedsMax", "LogicalClockExceedsMax"}
    /\ nreturned >= 1
    /\ cell = last.pre

\* C5: with max_drift # 0, update(remote) returns DriftTooLarge exactly
\* when remote_p - physical_now > max_drift, with that difference and
\* max_drift in the error, whatever the register holds.
C5_DriftDecision ==
    (last.call.kind = "update" /\ max_drift # 0) =>
        LET observed == Physical(last.call.remote) - last.call.now
        IN  /\ (last.err.e = "DriftTooLarge") <=> (observed > max_drift)
            /\ (last.err.e = "DriftTooLarge") =>
                   (~last.ok /\ last.err.a = observed /\ last.err.b = max_drift)

\* A remote beyond the bound has been rejected while the register's
\* physical component was at or ahead of the remote's.
C5_Witness ==
    /\ last.call.kind = "update"
    /\ max_drift # 0
    /\ last.err.e = "DriftTooLarge"
    /\ Physical(last.pre) >= Physical(last.call.remote)

\* C6: with max_drift = 0, update(remote) never returns DriftTooLarge; it
\* fails only on a field overflow, and when it succeeds its physical
\* component is the largest of the register's, the remote's and the clock's.
C6_DriftDisabled ==
    (last.call.kind = "update" /\ max_drift = 0) =>
        /\ last.err.e # "DriftTooLarge"
        /\ ~last.ok =>
               last.err.e \in {"PhysicalTimeExceedsMax", "LogicalClockExceedsMax"}
        /\ last.ok =>
               /\ Physical(last.val) = Max3(Physical(last.pre),
                                            Physical(last.call.remote), last.call.now)
               /\ last.val > last.call.remote

\* With max_drift = 0 a remote further ahead of the clock than any bound
\* the model knows has been merged.
C6_Witness ==
    /\ last.call.kind = "update"
    /\ max_drift = 0
    /\ last.ok
    /\ Physical(last.call.remote) - last.call.now > MaxDriftBound
    /\ Physical(last.val) = Physical(last.call.remote)

\* C7: a call of the cell's update either returns an error and stores
\* nothing, or changes the cell once, to the encoding of its closure
\* applied to the pair decoded from the very word its compare-and-swap
\* replaced; the cell changes in no other step.
C7_AtomicUpdate ==
    [][/\ (ndone' # ndone /\ last'.ok) =>
              LET r == NewCombined(last'.call, cell)
              IN  /\ r.ok
                  /\ cell' = r.v
                  /\ last'.val = cell'
                  /\ last'.writes = 1
       /\ (ndone' # ndone /\ ~last'.ok) => (cell' = cell /\ last'.writes = 0)
       /\ (ndone' = ndone) => (cell' = cell)]_vars

\* A call with the incrementing closure has succeeded after a failed
\* compare-and-swap.
C7_Witness ==
    /\ last.call.kind = "incr"
    /\ last.ok
    /\ last.retried
    /\ cell = last.val

\* Two next_timestamp() calls follow one another with no store between
\* them: the earlier one made the latest store before the later one's.
TwoTicks ==
    /\ last.call.kind = "next"
    /\ last.ok
    /\ last.prev.kind = "next"

\* C8 as claimed: if the clock strictly advances between two
\* next_timestamp() calls (readings at or after the epoch) the second
\* returns counter 0; if not, it returns the first's physical component and
\* a strictly larger counter.
C8_LocalTickAsClaimed ==
    (TwoTicks /\ last.prev.now >= EPOCH) =>
        IF last.call.now > last.prev.now
        THEN Logical(last.val) = 0
        ELSE /\ Physical(last.val) = Physical(last.pre)
             /\ Logical(last.val) > Logical(last.pre)

\* C8, amended: if the second call's reading is strictly greater than the
\* physical component the first call returned, the second returns that
\* reading and counter 0; otherwise, and so whenever the clock does not
\* advance, it returns the first's physical component and its counter
\* plus one.
C8_LocalTick ==
    TwoTicks =>
        /\ IF last.call.now > Physical(last.pre)
           THEN Physical(last.val) = last.call.now /\ Logical(last.val) = 0
           ELSE /\ Physical(last.val) = Physical(last.pre)
                /\ Logical(last.val) = Logical(last.pre) + 1
        /\ (last.call.now <= last.prev.now) =>
               /\ Physical(last.val) = Physical(last.pre)
               /\ Logical(last.val) > Logical(last.pre)

\* The clock has advanced between two next_timestamp() calls, but not past
\* the register, and the second call has incremented the counter.
C8_Witness ==
    /\ TwoTicks
    /\ last.prev.now >= EPOCH
    /\ last.call.now > last.prev.now
    /\ last.call.now <= Physical(last.pre)
    /\ Logical(last.val) = Logical(last.pre) + 1

\* C9: parts() of the timestamp that from_parts(pt, lc) returns is (pt, lc).
C9_RoundTrip ==
    (cout.op = "parts" /\ cts.op = "from_parts") =>
        (cout.pt = cin.pt /\ cout.lc = cin.lc)

\* A pair after the epoch with a counter above 0 has been encoded and
\* decoded.
C9_Witness ==
    /\ cout.op = "parts"
    /\ cts.op = "from_parts"
    /\ cin.pt > EPOCH
    /\ cin.lc > 0

\* C10 as claimed: for every timestamp t whose physical offset is at most
\* PT_MAX and whose counter is at most LC_MAX, try_from(t.as_u64())
\* succeeds and returns t.
C10_RawRoundTrip ==
    (cout.op = "try_from" /\ Offset(cts.v) <= PT_MAX /\ Logical(cts.v) <= LC_MAX) =>
        (cout.ok /\ cout.v = cts.v)

\* C11 as claimed: from_parts(pt, lc) returns a field overflow error when
\* the offset of pt from the epoch is above PT_MAX or lc is above LC_MAX,
\* succeeds for every pt at or after the epoch with an offset of at most
\* PT_MAX and lc of at most LC_MAX, and a timestamp it returns decodes to
\* the very pair it was given.
C11_EncodeRange ==
    (cts.op = "from_parts") =>
        /\ (cin.pt - EPOCH > PT_MAX \/ cin.lc > LC_MAX) =>
               /\ ~cts.ok
               /\ cts.err.e \in {"PhysicalTimeExceedsMax", "LogicalClockExceedsMax"}
        /\ (cin.pt >= EPOCH /\ cin.pt - EPOCH <= PT_MAX /\ cin.lc <= LC_MAX) => cts.ok
        /\ cts.ok => parts(cts.v) = <<cin.pt, cin.lc>>

\* C12: a timestamp is below another by the comparison of the words exactly
\* when its (physical time, counter) pair is below the other's in
\* lexicographic order, physical time first; equal words are equal pairs.
C12_OrderIsLexicographic ==
    (ares.op = "cmp") =>
        /\ (ares.ord = "Less") <=>
               \/ timestamp(ta) < timestamp(tb)
               \/ (timestamp(ta) = timestamp(tb) /\ count(ta) < count(tb))
        /\ (ares.ord = "Equal") <=>
               (timestamp(ta) = timestamp(tb) /\ count(ta) = count(tb))

\* Two timestamps have been compared of which the one with the earlier
\* physical time has the larger counter.
C12_Witness ==
    /\ ares.op = "cmp"
    /\ ares.ord = "Less"
    /\ timestamp(ta) < timestamp(tb)
    /\ count(ta) > count(tb)

\* C13: t + n, t - n, t += n and t -= n give the timestamp whose physical
\* offset is the offset of t plus, respectively minus, n modulo the width of
\* the physical field and whose counter is the counter of t, and taking n
\* away from t + n gives t again.
C13_MillisArithmetic ==
    /\ (ares.op = "add") =>
           /\ Offset(ares.v) = (Offset(ta) + ares.n) % (PT_MAX + 1)
           /\ Logical(ares.v) = Logical(ta)
    /\ (ares.op = "sub") =>
           /\ Offset(ares.v) = (Offset(ta) - ares.n) % (PT_MAX + 1)
           /\ Logical(ares.v) = Logical(ta)
    /\ (ares.op = "add_assign") =>
           /\ Offset(ta) = (Offset(ares.v) + ares.n) % (PT_MAX + 1)
           /\ Logical(ta) = Logical(ares.v)
    /\ (ares.op = "sub_assign") =>
           /\ Offset(ta) = (Offset(ares.v) - ares.n) % (PT_MAX + 1)
           /\ Logical(ta) = Logical(ares.v)
    /\ (ares.op = "add_sub") => (ares.v = ta)
    /\ (ares.op = "add_sub_assign") => (ta = ares.v)

\* Milliseconds have been added to a timestamp with a counter above 0 so
\* that the physical offset wrapped round, and taken away again.
C13_Witness ==
    /\ ares.op = "add_sub"
    /\ Logical(ta) > 0
    /\ Offset(ta) + ares.n > PT_MAX
    /\ ares.v = ta

\* C14: the difference of two timestamps is the signed difference of their
\* physical times, whatever their counters: it is the negation of the
\* difference taken the other way round, it is 0 for equal physical times,
\* and it is the same for every other pair of counters.
C14_Difference ==
    (ares.op = "diff") =>
        /\ ares.d = timestamp(ta) - timestamp(tb)
        /\ impl_sub(tb, ta) = 0 - ares.d
        /\ (timestamp(ta) = timestamp(tb)) => (ares.d = 0)
        /\ \A la, lb \in 0..LC_MAX :
               impl_sub(ta - Logical(ta) + la, tb - Logical(tb) + lb) = ares.d

\* The difference of a timestamp and a later one with a smaller counter
\* has been taken.
C14_Witness ==
    /\ ares.op = "diff"
    /\ ares.d < 0
    /\ Logical(ta) > Logical(tb)

\* C15: from_unix_timestamp(u) fails, with TimestampBelowMin(u, EPOCH),
\* exactly when u is below the epoch, and to_unix_timestamp of the offset
\* it returns is u.
C15_EpochConversion ==
    /\ (ares.op = "to_offset") =>
           /\ (~ares.ok) <=> (ares.n < EPOCH)
           /\ (~ares.ok) => (ares.err = Err("TimestampBelowMin", ares.n, EPOCH))
           /\ ares.ok => (ares.v + EPOCH = ares.n)
    /\ (ares.op = "to_unix") => (ares.v = ares.n)

\* The epoch itself has been converted to the offset 0 and back.
C15_Witness ==
    /\ ares.op = "to_unix"
    /\ ares.n = EPOCH
    /\ ares.v = EPOCH

\* C16: a compare-and-swap fails only when a store was made to the cell
\* after this call loaded it; whenever a call is in progress some call
\* returns; and every call that has started returns.
C16_LockFree ==
    /\ [][\A t \in Threads :
             (pc[t] = "cas" /\ pc'[t] = "load") => (nreturned > seen[t])]_vars
    /\ \A n \in 0..MaxCalls :
           (ndone = n /\ \E t \in Threads : pc[t] # "idle") ~> (ndone > n)
    /\ \A t \in Threads : (pc[t] # "idle") ~> (pc[t] = "idle")

\* A call whose compare-and-swap has failed is back at the top of the loop.
C16_Witness ==
    \E t \in Threads : pc[t] = "load" /\ retried[t] /\ nreturned > seen[t]

\* C17: the step in which update(remote) succeeds replaces the register
\* (local_p, local_l) by the timestamp it returns, whose physical time is
\* the largest of local_p, remote_p and the clock reading of the call, and
\* whose counter is max(local_l, remote_l) + 1 if that is both local_p and
\* remote_p, local_l + 1 if only local_p, remote_l + 1 if only remote_p,
\* and 0 otherwise.
C17_UpdateMerge ==
    [][(ndone' # ndone /\ last'.call.kind = "update" /\ last'.ok) =>
         LET local_p  == Physical(cell)
             local_l  == Logical(cell)
             remote_p == Physical(last'.call.remote)
             remote_l == Logical(last'.call.remote)
             new_p    == Max3(local_p, remote_p, last'.call.now)
             new_l    == IF new_p = local_p /\ new_p = remote_p
                         THEN Max2(local_l, remote_l) + 1
                         ELSE IF new_p = local_p THEN local_l + 1
                         ELSE IF new_p = remote_p THEN remote_l + 1
                         ELSE 0
         IN  /\ cell' = last'.val
             /\ last'.snap = cell
             /\ Physical(cell') = new_p
             /\ Logical(cell') = new_l]_vars

\* An update has merged a remote of the register's physical time and a
\* smaller counter, with the clock behind both: the result is the
\* register's counter plus one.
C17_Witness ==
    /\ last.call.kind = "update"
    /\ last.ok
    /\ Physical(last.snap) = Physical(last.call.remote)
    /\ last.call.now < Physical(last.snap)
    /\ Logical(last.call.remote) < Logical(last.snap)
    /\ Physical(last.val) = Physical(last.snap)
    /\ Logical(last.val) = Logical(last.snap) + 1

\* C18: next_timestamp() takes its clock reading when it starts and keeps
\* it while it runs, and the step in which it succeeds replaces the
\* register (local_p, local_l) by the timestamp it returns, whose physical
\* time is the larger of local_p and that reading and whose counter is
\* local_l + 1 if that is local_p, and 0 otherwise.
C18_NextMerge ==
    [][/\ \A t \in Threads :
             /\ (pc[t] = "idle" /\ pc'[t] # "idle" /\ call'[t].kind = "next") =>
                    (call'[t].now = clock)
             /\ (pc[t] # "idle" /\ pc'[t] # "idle") => (call'[t] = call[t])
       /\ (ndone' # ndone /\ last'.call.kind = "next" /\ last'.ok) =>
             LET local_p == Physical(cell)
                 local_l == Logical(cell)
                 new_p   == Max2(local_p, last'.call.now)
                 new_l   == IF new_p = local_p THEN local_l + 1 ELSE 0
             IN  /\ \E t \in Threads : pc[t] = "cas" /\ last'.call = call[t]
                 /\ cell' = last'.val
                 /\ last'.snap = cell
                 /\ Physical(cell') = new_p
                 /\ Logical(cell') = new_l]_vars

\* A next_timestamp() call has gone round the loop after a failed
\* compare-and-swap while the clock shows another time than the one the
\* call read, and reading the clock again would have given another word.
C18_Witness ==
    \E t \in Threads :
        /\ pc[t] = "cas"
        /\ retried[t]
        /\ call[t].kind = "next"
        /\ clock # call[t].now
        /\ NewCombined([call[t] EXCEPT !.now = clock], current[t]).v # new_combined[t]

\* C19: when the closure of a call returns a counter above LC_MAX or a
\* physical time above PT_MAX, the call returns the error of that field in
\* the very step that computed the pair, without going on to the
\* compare-and-swap, having stored nothing and leaving the register as it
\* is; and every word stored in the register holds, field by field, a pair
\* within the widths that a closure returned: no counter has wrapped or
\* carried into the physical bits.
C19_OverflowRejected ==
    [][/\ \A t \in Threads :
             (pc[t] = "load" /\ pc'[t] # "load") =>
                 LET m == MergeFn(call[t], Physical(cell), Logical(cell))
                 IN  (m.ok /\ (m.pt > PT_MAX \/ m.lc > LC_MAX)) =>
                         /\ pc'[t] = "idle"
                         /\ ndone' = ndone + 1
                         /\ ~last'.ok
                         /\ last'.err.e = IF m.pt > PT_MAX
                                          THEN "PhysicalTimeExceedsMax"
                                          ELSE "LogicalClockExceedsMax"
                         /\ last'.writes = 0
                         /\ cell' = cell
       /\ (cell' # cell) =>
             \E t \in Threads :
                 /\ pc[t] = "cas"
                 /\ pc'[t] = "idle"
                 /\ LET m == MergeFn(call[t], Physical(cell), Logical(cell))
                    IN  /\ m.ok
                        /\ m.pt <= PT_MAX
                        /\ m.lc <= LC_MAX
                        /\ Physical(cell') = m.pt
                        /\ Logical(cell') = m.lc]_vars

\* An update whose remote has the register's physical time and the largest
\* counter has returned LogicalClockExceedsMax, and the register, which
\* earlier calls had moved, is as it was.
C19_Witness ==
    /\ last.call.kind = "update"
    /\ ~last.ok
    /\ last.err.e = "LogicalClockExceedsMax"
    /\ Logical(last.call.remote) = LC_MAX
    /\ Physical(last.call.remote) = Physical(last.pre)
    /\ last.call.now <= Physical(last.pre)
    /\ nreturned >= 1
    /\ cell = last.pre

\* C20 as claimed: whenever a successful next_timestamp or update leaves the
\* register with a larger counter than the value it replaced had, it leaves
\* the physical component as it was.
C20_GrowsOnlyWhilePinnedAsClaimed ==
    (last.ok /\ last.call.kind \in {"next", "update"}
             /\ Logical(last.val) > Logical(last.snap)) =>
        (Physical(last.val) = Physical(last.snap))

\* C20, amended: a successful next_timestamp that leaves a larger counter
\* leaves the physical component as it was; a successful update that
\* leaves a larger counter either leaves the physical component as it was
\* or moves it to the remote's, and then the counter is the remote's plus
\* one; a counter above 0 always comes with the physical component of the
\* replaced value or of the remote.
C20_GrowsOnlyWhilePinned ==
    (last.ok /\ last.call.kind \in {"next", "update"}) =>
        /\ (last.call.kind = "next" /\ Logical(last.val) > Logical(last.snap)) =>
               (Physical(last.val) = Physical(last.snap))
        /\ (last.call.kind = "update" /\ Logical(last.val) > Logical(last.snap)
                                      /\ Physical(last.val) # Physical(last.snap)) =>
               /\ Physical(last.val) = Physical(last.call.remote)
               /\ Logical(last.val) = Logical(last.call.remote) + 1
        /\ (Logical(last.val) > 0) =>
               \/ Physical(last.val) = Physical(last.snap)
               \/ /\ last.call.kind = "update"
                  /\ Physical(last.val) = Physical(last.call.remote)

\* An update has moved the register to the later physical time of its
\* remote and left a larger counter than the register had.
C20_Witness ==
    /\ last.call.kind = "update"
    /\ last.ok
    /\ Physical(last.val) > Physical(last.snap)
    /\ Physical(last.val) > last.call.now
    /\ Logical(last.val) > Logical(last.snap)

C22_NextFailsOnlyOnOverflow ==
    (last.call.kind = "next" /\ ~last.ok) =>
        LET local_p == Physical(last.snap)
            new_p   == Max2(local_p, last.call.now)
            new_l   == IF new_p = local_p THEN Logical(last.snap) + 1 ELSE 0
        IN  /\ last.err.e \in {"PhysicalTimeExceedsMax", "LogicalClockExceedsMax"}
            /\ (new_p - EPOCH > PT_MAX) \/ (new_l > LC_MAX)

\* C23: when every thread has made all the updates of its sequence, the
\* cell holds the pair of the last update of one of the threads.
C23_FinalValue ==
    AllFinished =>
        \E t \in Threads :
            /\ Physical(cell) = EPOCH + t - 1
            /\ Logical(cell) = UpdatesPerThread - 1

\* All threads have finished, every update has stored, and the update that
\* returned last did so after a failed compare-and-swap.
C23_Witness ==
    /\ AllFinished
    /\ last.retried
    /\ nreturned = NumThreads * UpdatesPerThread
    /\ cell = last.val

\* C24: the compare-and-swap of an update installs the pair of the
\* update's own closure, and the update returns that pair, whatever the cell
\* holds when it returns.
C24_ReturnsOwnValue ==
    [][\A t \in Threads :
          /\ (pc[t] = "cas" /\ pc'[t] = "ret") =>
                 /\ Physical(cell') = call[t].cp
                 /\ Logical(cell') = call[t].cl
          /\ (pc[t] = "ret" /\ pc'[t] = "idle") =>
                 /\ last'.ok
                 /\ last'.call = call[t]
                 /\ Physical(last'.val) = call[t].cp
                 /\ Logical(last'.val) = call[t].cl]_vars

\* An update has returned its own pair while the cell held the pair that
\* another thread had stored since.
C24_Witness ==
    /\ last.ok
    /\ last.call.kind = "const"
    /\ last.writes = 1
    /\ Physical(last.val) = last.call.cp
    /\ Physical(last.pre) # last.call.cp
    /\ cell = last.pre

====
